---- MODULE Spec2Model ----
(***************************************************************************)
(* Snowflake Query Monitor (src/app.py): the sidebar filters and the       *)
(* predicate composed from them, the cached query executor and the script  *)
(* run that renders the views, the top-10 views and the estimated-cost     *)
(* query.                                                                  *)
(*                                                                         *)
(* SQL text and bound values are strings, as in the source; a parameter    *)
(* map (a Python dict) is a function whose domain is its set of keys.      *)
(***************************************************************************)
EXTENDS Integers, Sequences, FiniteSets, TLC

VARIABLES
    \* sidebar widgets (src/app.py 144-191)
    today, preset, date_input, warehouses, fallback_window, user_filter, query_tag,
    \* the composed filter (src/app.py 193-225, 335-336)
    composed, base_where, params, wh_filter_sql, wh_params, cost_params,
    \* the configuration: account, user and password are all present
    creds_ok,
    \* st.cache_data of run_query and of run_running_queries_fallback
    query_cache, fallback_cache,
    \* the script run: the view to execute next, how the run ended, the views
    \* rendered, the view whose query raised
    pc, run_end, rendered, raised,
    \* the requests of this run sent to the warehouse, and those served from a cache
    submitted, cache_hits,
    \* the Currently Running view of this run
    live,
    \* this run was started by Refresh; a key of the selection was cached when
    \* Refresh was pressed; a result computed before the last Refresh was served
    after_refresh, refreshed_fresh, served_old,
    \* the widget changes of the session so far
    changes,
    \* ACCOUNT_USAGE: the rows of QUERY_HISTORY that match the filter, and the
    \* rows of WAREHOUSE_METERING_HISTORY
    query_history, metering,
    \* the result of cost_sql, once the statement has run on the tables as they are
    cost_df, cost_done,
    \* base_df of the Top 10 views, and the frame df shown last, with its caption
    base_df, top_df, df_view

widgetVars == <<today, preset, date_input, warehouses, fallback_window, user_filter, query_tag>>
filterVars == <<composed, base_where, params, wh_filter_sql, wh_params, cost_params>>
cacheVars == <<query_cache, fallback_cache>>
runVars == <<pc, run_end, rendered, raised, submitted, cache_hits, live>>
refreshVars == <<after_refresh, refreshed_fresh, served_old>>
costVars == <<query_history, metering, cost_df, cost_done>>
topVars == <<base_df, top_df, df_view>>
dataVars == <<costVars, topVars>>
dashVars == <<widgetVars, filterVars, creds_ok, cacheVars, runVars, refreshVars, changes>>
vars == <<dashVars, dataVars>>

(***************************************************************************)
(* Strings and dicts                                                       *)
(***************************************************************************)
Range(s) == {s[i] : i \in 1..Len(s)}

\* s contains v as a substring
Contains(s, v) ==
    \E i \in 1..(Len(s) - Len(v) + 1) : SubSeq(s, i, i + Len(v) - 1) = v

\* number of occurrences of v in s
Occurrences(s, v) ==
    Cardinality({i \in 1..(Len(s) - Len(v) + 1) : SubSeq(s, i, i + Len(v) - 1) = v})

\* the names of the pyformat placeholders %(name)s of a SQL text
PlaceholdersOf(s) ==
    LET opens == {i \in 1..(Len(s) - 1) : SubSeq(s, i, i + 1) = "%("}
        close(i) == CHOOSE j \in (i + 2)..(Len(s) - 1) :
                        /\ SubSeq(s, j, j + 1) = ")s"
                        /\ \A k \in (i + 2)..(j - 1) : SubSeq(s, k, k + 1) # ")s"
    IN  {SubSeq(s, i + 2, close(i) - 1) : i \in opens}

EmptyDict == [k \in {} |-> ""]

\* d[k] = v of a Python dict
Put(d, k, v) == [x \in (DOMAIN d) \cup {k} |-> IF x = k THEN v ELSE d[x]]

\* d.update(e)
Update(d, e) == [x \in (DOMAIN d) \cup (DOMAIN e) |-> IF x \in DOMAIN e THEN e[x] ELSE d[x]]

Digit == <<"0", "1", "2", "3", "4", "5", "6", "7", "8", "9">>

\* str(n) of a natural number, as an f-string formats it
RECURSIVE Str(_)
Str(n) == IF n < 10 THEN Digit[n + 1] ELSE Str(n \div 10) \o Digit[(n % 10) + 1]

\* sep.join(parts)
RECURSIVE Join(_, _)
Join(sep, parts) ==
    IF Len(parts) = 0 THEN ""
    ELSE IF Len(parts) = 1 THEN parts[1]
    ELSE parts[1] \o sep \o Join(sep, Tail(parts))

(***************************************************************************)
(* Sidebar inputs                                                          *)
(***************************************************************************)
DEFAULT_WAREHOUSE == "FIVETRAN_WAREHOUSE"

\* The dates of the model are the days of one month; today is its last day.
DayDigits == <<"01", "02", "03", "04", "05", "06", "07", "08", "09", "10",
               "11", "12", "13", "14", "15", "16", "17", "18", "19", "20",
               "21", "22", "23", "24", "25", "26", "27", "28", "29", "30", "31">>
Today == Len(DayDigits)

\* date.isoformat()
IsoDate(d) == "2024-03-" \o DayDigits[d]

Presets == {"24h", "7d", "30d", "Custom"}

\* The days a custom range is picked from.
CustomDays == {1, 15, 31}

\* st.date_input of a range: both ends picked, or only the start so far.
DateInputs ==
    {r \in CustomDays \X CustomDays : r[1] <= r[2]} \cup {<<s>> : s \in CustomDays}

\* SHOW WAREHOUSES of the account, ordered by name.
AccountWarehouses == <<"ANALYTICS_WH", "FIVETRAN_WAREHOUSE">>

\* wh_options: "ALL", then the account's warehouses, then the default if absent
wh_options ==
    LET listed == <<"ALL">> \o AccountWarehouses
    IN  IF DEFAULT_WAREHOUSE \in Range(listed) THEN listed
        ELSE Append(listed, DEFAULT_WAREHOUSE)

\* The longest warehouse selection of the model.
MaxSelected == 3

\* st.multiselect: the selected options, each once, in the order selected.
Selections ==
    {s \in UNION {[1..n -> Range(wh_options)] : n \in 0..MaxSelected} :
        \A i, j \in 1..Len(s) : i # j => s[i] # s[j]}

FallbackWindows == {15, 30, 60, 120}

\* What the operator may type in a free-text filter: nothing, blanks, a name,
\* a text with quotes.
TextInputs == {"", "   ", "alice", "x' OR '1'='1"}

\* str.strip() of the text is empty
IsBlank(s) == \A i \in 1..Len(s) : SubSeq(s, i, i) = " "

(***************************************************************************)
(* Filter composition (src/app.py 156-167, 193-225, 335-336)               *)
(***************************************************************************)
\* the preset's (start_date, end_date); a custom range is unpacked from the
\* date input
DateRange(t, p, di) ==
    CASE p = "24h" -> <<t - 1, t>>
      [] p = "7d"  -> <<t - 7, t>>
      [] p = "30d" -> <<t - 30, t>>
      [] OTHER     -> di

\* start_date, end_date = st.date_input(...) raises ValueError on a 1-tuple
UnpackFails(p, di) == p = "Custom" /\ Len(di) # 2

to_ts_range(start_d, end_d) ==
    <<IsoDate(start_d) \o " 00:00:00", IsoDate(end_d) \o " 23:59:59.999999">>

\* f"wh_{idx}"
WhKey(idx) == "wh_" \o Str(idx)

\* Mutant of Restricted: only the first selected entry is compared with the sentinel.
RestrictedFirstOnly(whs) == Len(whs) > 0 /\ whs[1] # "ALL"

\* if warehouses and "ALL" not in warehouses
Restricted(whs) == Len(whs) > 0 /\ "ALL" \notin Range(whs)

\* wh_placeholders of the loop over enumerate(warehouses)
WhPlaceholders(whs) == [i \in 1..Len(whs) |-> "%(" \o WhKey(i - 1) \o ")s"]

\* the loop's assignments d[f"wh_{idx}"] = wh
RECURSIVE BindWarehouses(_, _, _)
BindWarehouses(d, whs, idx) ==
    IF idx >= Len(whs) THEN d
    ELSE BindWarehouses(Put(d, WhKey(idx), whs[idx + 1]), whs, idx + 1)

WhInList(whs) == "WAREHOUSE_NAME IN (" \o Join(", ", WhPlaceholders(whs)) \o ")"

\* Mutant of UserClause: the typed text is put into the SQL text.
UserClauseInterpolated(u) == "USER_NAME = '" \o u \o "'"

UserClause(u) == "USER_NAME = %(user_name)s"

TagClause(t) == "QUERY_TAG = %(query_tag)s"

\* if user_filter: / if query_tag: (a non-empty str is truthy)
Truthy(s) == s # ""

base_filters(whs, u, t) ==
    <<"START_TIME >= %(start_ts)s", "START_TIME <= %(end_ts)s">>
        \o (IF Restricted(whs) THEN <<WhInList(whs)>> ELSE <<>>)
        \o (IF Truthy(u) THEN <<UserClause(u)>> ELSE <<>>)
        \o (IF Truthy(t) THEN <<TagClause(t)>> ELSE <<>>)

Params(ts, whs, u, t) ==
    LET p0 == Put(Put(EmptyDict, "start_ts", ts[1]), "end_ts", ts[2])
        p1 == IF Restricted(whs) THEN BindWarehouses(p0, whs, 0) ELSE p0
        p2 == IF Truthy(u) THEN Put(p1, "user_name", u) ELSE p1
    IN  IF Truthy(t) THEN Put(p2, "query_tag", t) ELSE p2

BaseWhere(whs, u, t) == Join(" AND ", base_filters(whs, u, t))

WhFilterSql(whs) == IF Restricted(whs) THEN "AND " \o WhInList(whs) ELSE ""

WhParams(whs) == IF Restricted(whs) THEN BindWarehouses(EmptyDict, whs, 0) ELSE EmptyDict

\* cost_params = params.copy(); cost_params.update(wh_params)
CostParams(p, wp) == Update(p, wp)

\* The views of the page, in the order the script renders them.
Views == <<"status", "top10", "long", "running", "raw", "hourly", "daily", "cost">>

LONG_RUNNING_MS == 10 * 60 * 1000

QH == "FROM SNOWFLAKE.ACCOUNT_USAGE.QUERY_HISTORY WHERE "

MH == "FROM SNOWFLAKE.ACCOUNT_USAGE.WAREHOUSE_METERING_HISTORY WHERE START_TIME >= %(start_ts)s AND START_TIME <= %(end_ts)s "

\* status_sql, metric_sql, long_sql, raw_sql, wh_hour_sql, wh_day_sql, cost_sql:
\* the f-strings with base_where and wh_filter_sql put in (white space condensed)
Sql(v, bw, whf) ==
    CASE v = "status" ->
            "SELECT EXECUTION_STATUS, COUNT(*) AS QUERY_COUNT " \o QH \o bw
                \o " GROUP BY 1 ORDER BY QUERY_COUNT DESC"
      [] v = "top10" ->
            "SELECT QUERY_ID, USER_NAME, WAREHOUSE_NAME, START_TIME, TOTAL_ELAPSED_TIME, BYTES_SCANNED, CREDITS_USED_CLOUD_SERVICES, QUERY_TEXT "
                \o QH \o bw
      [] v = "long" ->
            "SELECT QUERY_ID, USER_NAME, WAREHOUSE_NAME, START_TIME, TOTAL_ELAPSED_TIME, EXECUTION_STATUS, QUERY_TEXT "
                \o QH \o bw \o " AND TOTAL_ELAPSED_TIME >= " \o Str(LONG_RUNNING_MS)
                \o " ORDER BY TOTAL_ELAPSED_TIME DESC"
      [] v = "raw" ->
            "SELECT QUERY_ID, USER_NAME, WAREHOUSE_NAME, DATABASE_NAME, SCHEMA_NAME, START_TIME, END_TIME, TOTAL_ELAPSED_TIME, BYTES_SCANNED, ROWS_PRODUCED, EXECUTION_STATUS, QUERY_TAG, QUERY_TEXT "
                \o QH \o bw \o " ORDER BY START_TIME DESC LIMIT 500"
      [] v = "hourly" ->
            "SELECT DATE_TRUNC('hour', START_TIME) AS HOUR, WAREHOUSE_NAME, SUM(CREDITS_USED) AS CREDITS_USED "
                \o MH \o whf \o " GROUP BY 1, 2 ORDER BY 1 DESC"
      [] v = "daily" ->
            "SELECT DATE_TRUNC('day', START_TIME) AS DAY, WAREHOUSE_NAME, SUM(CREDITS_USED) AS CREDITS_USED "
                \o MH \o whf \o " GROUP BY 1, 2 ORDER BY 1 DESC"
      [] v = "cost" ->
            "WITH q AS (SELECT QUERY_ID, USER_NAME, WAREHOUSE_NAME, START_TIME, DATE_TRUNC('hour', START_TIME) AS HOUR, TOTAL_ELAPSED_TIME, QUERY_TEXT "
                \o QH \o bw \o " AND WAREHOUSE_NAME IS NOT NULL), "
                \o "wh AS (SELECT DATE_TRUNC('hour', START_TIME) AS HOUR, WAREHOUSE_NAME, SUM(CREDITS_USED) AS CREDITS_USED "
                \o MH \o whf \o " GROUP BY 1, 2), "
                \o "totals AS (SELECT HOUR, WAREHOUSE_NAME, SUM(TOTAL_ELAPSED_TIME) AS TOTAL_MS FROM q GROUP BY 1, 2) "
                \o "SELECT q.QUERY_ID, q.USER_NAME, q.WAREHOUSE_NAME, q.START_TIME, q.TOTAL_ELAPSED_TIME, q.QUERY_TEXT, wh.CREDITS_USED, "
                \o "(q.TOTAL_ELAPSED_TIME / NULLIF(t.TOTAL_MS, 0)) * wh.CREDITS_USED AS ESTIMATED_CREDITS "
                \o "FROM q LEFT JOIN totals t ON q.HOUR = t.HOUR AND q.WAREHOUSE_NAME = t.WAREHOUSE_NAME "
                \o "LEFT JOIN wh ON q.HOUR = wh.HOUR AND q.WAREHOUSE_NAME = wh.WAREHOUSE_NAME "
                \o "ORDER BY ESTIMATED_CREDITS DESC LIMIT 50"

\* the parameter map a view submits with its query: the Overview tab's views
\* pass params, the Cost Monitor tab's pass cost_params
ParamsOfView(v, p, cp) == IF v \in {"hourly", "daily", "cost"} THEN cp ELSE p

\* the sql of run_running_queries_fallback
FallbackSql ==
    "SELECT QUERY_ID, USER_NAME, WAREHOUSE_NAME, START_TIME, TOTAL_ELAPSED_TIME, EXECUTION_STATUS, QUERY_TEXT "
        \o "FROM TABLE(INFORMATION_SCHEMA.QUERY_HISTORY(END_TIME_RANGE_START=>DATEADD('minute', -%(minutes)s, CURRENT_TIMESTAMP()))) "
        \o "WHERE WAREHOUSE_NAME = %(warehouse)s AND END_TIME IS NULL ORDER BY START_TIME DESC"

FallbackParams(wh, minutes) == Put(Put(EmptyDict, "warehouse", wh), "minutes", Str(minutes))

(***************************************************************************)
(* The script's lines 144-225 and 335-336: the sidebar and the filter      *)
(***************************************************************************)
NoLive ==
    [calls |-> <<>>, fallback_args |-> <<>>, unavailable |-> FALSE, show |-> "none",
     error |-> "none", warned |-> FALSE, caption |-> "", cursor_closed |-> TRUE,
     show_empty |-> FALSE, no_running |-> FALSE]

\* A run starts: nothing of it is rendered yet.  Unpacking a half-picked date
\* range raises (line 167); list_warehouses then asks for the connection, and
\* get_connection stops the script when a credential is missing (lines 21-23,
\* 172); else the filter is composed and the views follow.
StartRun(t, p, di, whs, u, q) ==
    /\ rendered' = {}
    /\ raised' = "none"
    /\ submitted' = {}
    /\ cache_hits' = {}
    /\ live' = NoLive
    /\ served_old' = FALSE
    /\ IF UnpackFails(p, di) \/ ~creds_ok
       THEN /\ composed' = FALSE
            /\ base_where' = ""
            /\ params' = EmptyDict
            /\ wh_filter_sql' = ""
            /\ wh_params' = EmptyDict
            /\ cost_params' = EmptyDict
            /\ pc' = "idle"
            /\ run_end' = IF UnpackFails(p, di) THEN "exception" ELSE "stopped"
       ELSE LET dr == DateRange(t, p, di)
                ts == to_ts_range(dr[1], dr[2])
            IN  /\ composed' = TRUE
                /\ base_where' = BaseWhere(whs, u, q)
                /\ params' = Params(ts, whs, u, q)
                /\ wh_filter_sql' = WhFilterSql(whs)
                /\ wh_params' = WhParams(whs)
                /\ cost_params' = CostParams(Params(ts, whs, u, q), WhParams(whs))
                /\ pc' = Views[1]
                /\ run_end' = "running"

\* The first run of the script: every widget at its default.
DefaultSelection ==
    IF DEFAULT_WAREHOUSE \in Range(wh_options) THEN <<DEFAULT_WAREHOUSE>> ELSE <<wh_options[1]>>

InitWidgets ==
    /\ today = Today
    /\ preset = "7d"
    /\ date_input = <<Today - 7, Today>>
    /\ warehouses = DefaultSelection
    /\ fallback_window = 60
    /\ user_filter = ""
    /\ query_tag = ""

InitRun ==
    /\ changes = 0
    /\ query_cache = EmptyDict
    /\ fallback_cache = EmptyDict
    /\ rendered = {}
    /\ raised = "none"
    /\ submitted = {}
    /\ cache_hits = {}
    /\ live = NoLive
    /\ after_refresh = FALSE
    /\ refreshed_fresh = FALSE
    /\ served_old = FALSE
    /\ IF creds_ok
       THEN /\ composed = TRUE
            /\ base_where = BaseWhere(DefaultSelection, "", "")
            /\ params = Params(to_ts_range(Today - 7, Today), DefaultSelection, "", "")
            /\ wh_filter_sql = WhFilterSql(DefaultSelection)
            /\ wh_params = WhParams(DefaultSelection)
            /\ cost_params = CostParams(Params(to_ts_range(Today - 7, Today), DefaultSelection, "", ""),
                                        WhParams(DefaultSelection))
            /\ pc = Views[1]
            /\ run_end = "running"
       ELSE /\ composed = FALSE
            /\ base_where = ""
            /\ params = EmptyDict
            /\ wh_filter_sql = ""
            /\ wh_params = EmptyDict
            /\ cost_params = EmptyDict
            /\ pc = "idle"
            /\ run_end = "stopped"

\* No table content, no frame: the state of the data before a statement runs.
InitData ==
    /\ query_history = <<>>
    /\ metering = {}
    /\ cost_df = <<>>
    /\ cost_done = FALSE
    /\ base_df = <<>>
    /\ top_df = <<>>
    /\ df_view = "none"

Init ==
    /\ creds_ok \in BOOLEAN
    /\ InitWidgets
    /\ InitRun
    /\ InitData

InitFilter ==
    /\ creds_ok = TRUE
    /\ InitWidgets
    /\ InitRun
    /\ InitData

(***************************************************************************)
(* The sidebar's widgets.  A change of a widget reruns the script from the *)
(* top (a run in progress is abandoned).                                   *)
(***************************************************************************)
\* The date input is on the page only under the Custom preset: a widget that
\* was not rendered in the last run is created anew, with its default value.
PresetChanged ==
    \E p \in Presets :
        LET di == IF p = "Custom" /\ preset = "Custom" THEN date_input
                  ELSE <<today - 7, today>>
        IN  /\ preset' = p
            /\ date_input' = di
            /\ StartRun(today, p, di, warehouses, user_filter, query_tag)
            /\ after_refresh' = FALSE
            /\ UNCHANGED <<today, warehouses, fallback_window, user_filter, query_tag>>
            /\ refreshed_fresh' = FALSE
    /\ UNCHANGED <<creds_ok, cacheVars, dataVars>>

DateRangeChanged ==
    /\ preset = "Custom"
    /\ \E di \in DateInputs :
        /\ date_input' = di
        /\ StartRun(today, preset, di, warehouses, user_filter, query_tag)
    /\ after_refresh' = FALSE
    /\ UNCHANGED <<today, preset, warehouses, fallback_window, user_filter, query_tag>>
    /\ refreshed_fresh' = FALSE
    /\ UNCHANGED <<creds_ok, cacheVars, dataVars>>

\* The widgets below line 172 are on the page only when the run got there.
BelowWarehouseList == creds_ok /\ ~UnpackFails(preset, date_input)

WarehousesChanged(choices) ==
    /\ BelowWarehouseList
    /\ \E whs \in choices :
        /\ warehouses' = whs
        /\ StartRun(today, preset, date_input, whs, user_filter, query_tag)
    /\ after_refresh' = FALSE
    /\ UNCHANGED <<today, preset, date_input, fallback_window, user_filter, query_tag>>
    /\ refreshed_fresh' = FALSE
    /\ UNCHANGED <<creds_ok, cacheVars, dataVars>>

FallbackWindowChanged ==
    /\ BelowWarehouseList
    /\ \E m \in FallbackWindows :
        /\ fallback_window' = m
        /\ StartRun(today, preset, date_input, warehouses, user_filter, query_tag)
    /\ after_refresh' = FALSE
    /\ UNCHANGED <<today, preset, date_input, warehouses, user_filter, query_tag>>
    /\ refreshed_fresh' = FALSE
    /\ UNCHANGED <<creds_ok, cacheVars, dataVars>>

UserChanged ==
    /\ BelowWarehouseList
    /\ \E u \in TextInputs :
        /\ user_filter' = u
        /\ StartRun(today, preset, date_input, warehouses, u, query_tag)
    /\ after_refresh' = FALSE
    /\ UNCHANGED <<today, preset, date_input, warehouses, fallback_window, query_tag>>
    /\ refreshed_fresh' = FALSE
    /\ UNCHANGED <<creds_ok, cacheVars, dataVars>>

QueryTagChanged ==
    /\ BelowWarehouseList
    /\ \E q \in TextInputs :
        /\ query_tag' = q
        /\ StartRun(today, preset, date_input, warehouses, user_filter, q)
    /\ after_refresh' = FALSE
    /\ UNCHANGED <<today, preset, date_input, warehouses, fallback_window, user_filter>>
    /\ refreshed_fresh' = FALSE
    /\ UNCHANGED <<creds_ok, cacheVars, dataVars>>

(***************************************************************************)
(* The filter builder under every selection: the operator changes the      *)
(* widgets one after the other, each change composing the filter anew      *)
(* before a view of the abandoned run has run.                             *)
(***************************************************************************)
SelectPreset == PresetChanged /\ UNCHANGED changes

PickDateRange == DateRangeChanged /\ UNCHANGED changes

SelectWarehouses == WarehousesChanged(Selections) /\ UNCHANGED changes

SelectFallbackWindow == FallbackWindowChanged /\ UNCHANGED changes

TypeUser == UserChanged /\ UNCHANGED changes

TypeQueryTag == QueryTagChanged /\ UNCHANGED changes

NextFilter ==
    \/ SelectPreset
    \/ PickDateRange
    \/ SelectWarehouses
    \/ SelectFallbackWindow
    \/ TypeUser
    \/ TypeQueryTag

SpecFilter == InitFilter /\ [][NextFilter]_vars

(***************************************************************************)
(* The query executor (src/app.py 64-133)                                  *)
(***************************************************************************)
\* ttl of st.cache_data on run_query and on run_running_queries_fallback
QUERY_TTL == 300
FALLBACK_TTL == 60

\* The seconds that pass in one step of the clock.
TickSeconds == 150

\* What the warehouse answers to a submitted statement: a result, or one of the
\* connector's errors.
ProviderErrors == {"ProgrammingError", "OperationalError"}

QueryOutcomes == {"ok"} \cup ProviderErrors

\* str(exc) of a provider error
ErrorMessage(e) ==
    IF e = "ProgrammingError" THEN "SQL access control error: insufficient privileges"
    ELSE "could not connect to Snowflake backend"

\* A cached value: its age in seconds; old marks a value computed before the
\* last press of Refresh.
Entry(isOld) == [age |-> 0, old |-> isOld]

\* the entries of a cache after dt seconds: an entry as old as its ttl is gone
Aged(c, ttl, dt) ==
    LET keep == {k \in DOMAIN c : c[k].age + dt < ttl}
    IN  [k \in keep |-> [c[k] EXCEPT !.age = @ + dt]]

MarkOld(c) == [k \in DOMAIN c |-> [c[k] EXCEPT !.old = TRUE]]

\* Mutant of CacheDataClear: the entries stay.
CacheDataKept(c) == c

\* st.cache_data.clear(): every entry of every st.cache_data function is dropped
CacheDataClear(c) == EmptyDict

\* Rows of SHOW QUERIES: the status of each; a result may lack the column.
ShowStatuses == {"RUNNING", "QUEUED"}

\* The most rows a SHOW QUERIES result has in the model.
MaxShowRows == 2

EmptyFrame == [has_status |-> FALSE, rows |-> <<>>]

ShowOutcomes ==
    {[error |-> e, df |-> EmptyFrame] : e \in ProviderErrors}
        \cup {[error |-> "none", df |-> [has_status |-> h, rows |-> r]] :
                h \in BOOLEAN, r \in UNION {[1..n -> ShowStatuses] : n \in 0..MaxShowRows}}

\* except sf_errors.ProgrammingError
CaughtByShow(e) == e = "ProgrammingError"

\* run_show_queries when the warehouse answers o: what it returns, or that it
\* raised; the finally clause closes the cursor on every path.
run_show_queries(o) ==
    IF o.error = "none"
    THEN [raised |-> FALSE, df |-> o.df, warned |-> FALSE, caption |-> "", cursor_closed |-> TRUE]
    ELSE IF CaughtByShow(o.error)
    THEN [raised |-> FALSE, df |-> EmptyFrame, warned |-> TRUE,
          caption |-> "Snowflake error: " \o ErrorMessage(o.error), cursor_closed |-> TRUE]
    ELSE [raised |-> TRUE, df |-> EmptyFrame, warned |-> FALSE, caption |-> "", cursor_closed |-> TRUE]

\* running_df[running_df["execution_status"] == "RUNNING"], when the column is there
RunningRows(df) ==
    IF df.has_status THEN SelectSeq(df.rows, LAMBDA st : st = "RUNNING") ELSE df.rows

(***************************************************************************)
(* The views (src/app.py 229-425), one action each                         *)
(***************************************************************************)
ViewIndex(v) == CHOOSE i \in 1..Len(Views) : Views[i] = v

\* the view is rendered and the script goes on to the next one
Advance(v) ==
    /\ rendered' = rendered \cup {v}
    /\ raised' = raised
    /\ pc' = IF ViewIndex(v) = Len(Views) THEN "idle" ELSE Views[ViewIndex(v) + 1]
    /\ run_end' = IF ViewIndex(v) = Len(Views) THEN "complete" ELSE run_end

\* the exception leaves the script: the run ends at this view
Raise(v) ==
    /\ rendered' = rendered
    /\ raised' = v
    /\ pc' = "idle"
    /\ run_end' = "exception"

\* st.dataframe(run_query(sql, params)): a cached result is served; else the
\* statement goes to the warehouse, its result is cached, its error propagates.
QueryView(v) ==
    /\ pc = v
    /\ LET key == <<Sql(v, base_where, wh_filter_sql), ParamsOfView(v, params, cost_params)>>
       IN  \/ /\ key \in DOMAIN query_cache
              /\ cache_hits' = cache_hits \cup {v}
              /\ served_old' = (served_old \/ query_cache[key].old)
              /\ Advance(v)
              /\ UNCHANGED <<query_cache, submitted>>
           \/ /\ key \notin DOMAIN query_cache
              /\ submitted' = submitted \cup {v}
              /\ \E outcome \in QueryOutcomes :
                    IF outcome = "ok"
                    THEN /\ query_cache' = Put(query_cache, key, Entry(FALSE))
                         /\ Advance(v)
                    ELSE /\ query_cache' = query_cache
                         /\ Raise(v)
              /\ UNCHANGED <<cache_hits, served_old>>
    /\ UNCHANGED <<widgetVars, filterVars, creds_ok, fallback_cache, live, after_refresh, refreshed_fresh, changes, dataVars>>

StatusOverview == QueryView("status")

Top10Queries == QueryView("top10")

LongRunningQueries == QueryView("long")

RawQueryHistory == QueryView("raw")

WarehouseCreditsHourly == QueryView("hourly")

WarehouseCreditsDaily == QueryView("daily")

EstimatedQueryCost == QueryView("cost")

\* running_df = run_running_queries_fallback(warehouses[0], fallback_window):
\* its own cache first, then run_query's, then the warehouse
Fallback(wh, minutes, lv) ==
    LET fkey == <<wh, minutes>>
        qkey == <<FallbackSql, FallbackParams(wh, minutes)>>
        called == [lv EXCEPT !.calls = Append(@, "fallback"), !.fallback_args = <<wh, minutes>>]
    IN  /\ live' = called
        /\ \/ /\ fkey \in DOMAIN fallback_cache
              /\ cache_hits' = cache_hits \cup {"fallback"}
              /\ served_old' = (served_old \/ fallback_cache[fkey].old)
              /\ Advance("running")
              /\ UNCHANGED <<query_cache, fallback_cache, submitted>>
           \/ /\ fkey \notin DOMAIN fallback_cache
              /\ qkey \in DOMAIN query_cache
              /\ cache_hits' = cache_hits \cup {"fallback"}
              /\ served_old' = (served_old \/ query_cache[qkey].old)
              /\ fallback_cache' = Put(fallback_cache, fkey, Entry(query_cache[qkey].old))
              /\ Advance("running")
              /\ UNCHANGED <<query_cache, submitted>>
           \/ /\ fkey \notin DOMAIN fallback_cache
              /\ qkey \notin DOMAIN query_cache
              /\ submitted' = submitted \cup {"fallback"}
              /\ \E outcome \in QueryOutcomes :
                    IF outcome = "ok"
                    THEN /\ query_cache' = Put(query_cache, qkey, Entry(FALSE))
                         /\ fallback_cache' = Put(fallback_cache, fkey, Entry(FALSE))
                         /\ Advance("running")
                    ELSE /\ UNCHANGED <<query_cache, fallback_cache>>
                         /\ Raise("running")
              /\ UNCHANGED <<cache_hits, served_old>>

\* The Currently Running view (lines 296-306).
CurrentlyRunning ==
    /\ pc = "running"
    /\ IF Len(warehouses) > 0 /\ "ALL" \notin Range(warehouses) /\ Len(warehouses) = 1
       THEN \E o \in ShowOutcomes :
               LET r == run_show_queries(o)
                   lv == [live EXCEPT !.calls = Append(@, "show"),
                                      !.show = IF r.raised THEN "raised" ELSE "returned",
                                      !.error = o.error,
                                      !.warned = r.warned,
                                      !.caption = r.caption,
                                      !.cursor_closed = r.cursor_closed,
                                      !.show_empty = (~r.raised /\ Len(r.df.rows) = 0),
                                      !.no_running = (\A i \in 1..Len(o.df.rows) :
                                                         o.df.has_status /\ o.df.rows[i] # "RUNNING")]
               IN  IF r.raised
                   THEN /\ live' = lv
                        /\ Raise("running")
                        /\ UNCHANGED <<cacheVars, submitted, cache_hits, served_old>>
                   ELSE IF Len(RunningRows(r.df)) = 0
                   THEN Fallback(warehouses[1], fallback_window, lv)
                   ELSE /\ live' = lv
                        /\ Advance("running")
                        /\ UNCHANGED <<cacheVars, submitted, cache_hits, served_old>>
       ELSE /\ live' = [live EXCEPT !.unavailable = TRUE]
            /\ Advance("running")
            /\ UNCHANGED <<cacheVars, submitted, cache_hits, served_old>>
    /\ UNCHANGED <<widgetVars, filterVars, creds_ok, after_refresh, refreshed_fresh, changes, dataVars>>

\* The Refresh data button (lines 146-148): the caches are cleared and the
\* script is rerun with the widgets as they are.
Refresh ==
    /\ query_cache' = CacheDataClear(MarkOld(query_cache))
    /\ fallback_cache' = CacheDataClear(MarkOld(fallback_cache))
    /\ StartRun(today, preset, date_input, warehouses, user_filter, query_tag)
    /\ after_refresh' = TRUE
    /\ refreshed_fresh' =
          (composed /\ <<Sql("status", base_where, wh_filter_sql), params>> \in DOMAIN query_cache)
    /\ UNCHANGED <<widgetVars, creds_ok, changes, dataVars>>

\* Time passes between two runs (a run is short against the ttls).
Tick ==
    /\ pc = "idle"
    /\ (DOMAIN query_cache) \cup (DOMAIN fallback_cache) # {}
    /\ query_cache' = Aged(query_cache, QUERY_TTL, TickSeconds)
    /\ fallback_cache' = Aged(fallback_cache, FALLBACK_TTL, TickSeconds)
    /\ UNCHANGED <<widgetVars, filterVars, creds_ok, runVars, refreshVars, changes, dataVars>>

\* The warehouse selections tried on the running dashboard.
RunSelections ==
    {<<>>, <<"ALL">>, <<DEFAULT_WAREHOUSE>>, <<DEFAULT_WAREHOUSE, "ANALYTICS_WH">>,
     <<"ANALYTICS_WH", "ALL">>}

\* The widget changes of one session of the running dashboard.
MaxChanges == 1

ChangeWarehouses ==
    /\ changes < MaxChanges
    /\ changes' = changes + 1
    /\ WarehousesChanged(RunSelections)

ChangeFallbackWindow ==
    /\ changes < MaxChanges
    /\ changes' = changes + 1
    /\ FallbackWindowChanged

Next ==
    \/ ChangeWarehouses
    \/ ChangeFallbackWindow
    \/ Refresh
    \/ Tick
    \/ StatusOverview
    \/ Top10Queries
    \/ LongRunningQueries
    \/ CurrentlyRunning
    \/ RawQueryHistory
    \/ WarehouseCreditsHourly
    \/ WarehouseCreditsDaily
    \/ EstimatedQueryCost

Spec == Init /\ [][Next]_vars

(***************************************************************************)
(* The estimated-cost statement (src/app.py 378-425) on the rows of the    *)
(* two ACCOUNT_USAGE tables.  A nullable value is <<>> (NULL) or <<v>>.    *)
(* Elapsed times are whole milliseconds, credits whole credits; a quotient *)
(* of two NUMBER(38,0) has six decimal places, so the quotient and         *)
(* ESTIMATED_CREDITS are held in millionths.                               *)
(***************************************************************************)
NULL == <<>>

IsNull(x) == x = <<>>

Min(a, b) == IF a <= b THEN a ELSE b

\* LIMIT 50
COST_LIMIT == 50

\* one unit of a quotient: 10 ^ -6
QuotientUnit == 10 ^ 6

\* a / b of two whole numbers, rounded half up to six decimal places
Quotient(a, b) == (2 * a * QuotientUnit + b) \div (2 * b)

\* NULLIF(x, 0)
NullIfZero(x) == IF x = 0 THEN NULL ELSE <<x>>

\* a / b and a * b of SQL: NULL when an operand is NULL
SqlDivide(a, b) == IF IsNull(b) THEN NULL ELSE <<Quotient(a, b[1])>>

SqlTimes(a, b) == IF IsNull(a) \/ IsNull(b) THEN NULL ELSE <<a[1] * b[1]>>

RECURSIVE SumRange(_, _, _)
SumRange(xs, lo, hi) ==
    IF lo > hi THEN 0
    ELSE IF lo = hi THEN xs[lo]
    ELSE LET mid == (lo + hi) \div 2
         IN  SumRange(xs, lo, mid) + SumRange(xs, mid + 1, hi)

SumSeq(xs) == SumRange(xs, 1, Len(xs))

RECURSIVE SumSet(_)
SumSet(rows) ==
    IF rows = {} THEN 0
    ELSE LET r == CHOOSE x \in rows : TRUE IN r.credits + SumSet(rows \ {r})

\* CTE q: the matching rows of QUERY_HISTORY with WAREHOUSE_NAME IS NOT NULL
QCte(hist) == SelectSeq(hist, LAMBDA r : ~IsNull(r.warehouse))

\* CTE wh, joined on (HOUR, WAREHOUSE_NAME): SUM(CREDITS_USED) of the group, NULL
\* when the LEFT JOIN finds no group
WhCredits(meter, hour, wh) ==
    LET grp == {m \in meter : m.hour = hour /\ <<m.warehouse>> = wh}
    IN  IF grp = {} THEN NULL ELSE <<SumSet(grp)>>

\* CTE totals, joined on (HOUR, WAREHOUSE_NAME): SUM(TOTAL_ELAPSED_TIME) of the group
TotalMs(q, hour, wh) ==
    SumSeq([i \in 1..Len(q) |->
                IF q[i].hour = hour /\ q[i].warehouse = wh THEN q[i].elapsed ELSE 0])

\* (q.TOTAL_ELAPSED_TIME / NULLIF(t.TOTAL_MS, 0)) * wh.CREDITS_USED
EstimatedCredits(elapsed, total_ms, credits) ==
    SqlTimes(SqlDivide(elapsed, NullIfZero(total_ms)), credits)

\* FROM q LEFT JOIN totals t LEFT JOIN wh: one row for each row of q
CostRows(hist, meter) ==
    LET q == QCte(hist)
    IN  SubSeq([i \in 1..Len(q) |->
            LET credits == WhCredits(meter, q[i].hour, q[i].warehouse)
            IN  [query_id |-> q[i].query_id,
                 warehouse |-> q[i].warehouse,
                 hour |-> q[i].hour,
                 elapsed |-> q[i].elapsed,
                 credits |-> credits,
                 estimated |-> EstimatedCredits(q[i].elapsed,
                                                TotalMs(q, q[i].hour, q[i].warehouse),
                                                credits)]], 1, Len(q))

\* ORDER BY x DESC: a NULL sorts before every value (NULLS FIRST is the default
\* of a descending order), a greater value before a smaller one
SortsBeforeDesc(a, b) ==
    IF IsNull(a) THEN ~IsNull(b)
    ELSE ~IsNull(b) /\ a[1] > b[1]

\* The place of row i in the sorted rows: after the rows that sort before it
\* and after the rows of equal key that come earlier.
RankByEstimate(rows, i) ==
    1 + Cardinality({j \in 1..Len(rows) :
                        \/ SortsBeforeDesc(rows[j].estimated, rows[i].estimated)
                        \/ /\ ~SortsBeforeDesc(rows[i].estimated, rows[j].estimated)
                           /\ j < i})

SortByEstimate(rows) ==
    LET n == Len(rows)
        rank == SubSeq([i \in 1..n |-> RankByEstimate(rows, i)], 1, n)
    IN  [k \in 1..n |-> rows[CHOOSE i \in 1..n : rank[i] = k]]

Reverse(xs) == [i \in 1..Len(xs) |-> xs[Len(xs) + 1 - i]]

\* ORDER BY ESTIMATED_CREDITS DESC: the order of rows with equal keys is the
\* engine's; the scan order is kept (rev false) or turned round (rev true)
OrderByEstimatedDesc(rows, rev) ==
    SortByEstimate(IF rev THEN Reverse(rows) ELSE rows)

Limit(rows, n) == SubSeq(rows, 1, Min(n, Len(rows)))

\* cost_sql
CostSql(hist, meter, rev) == Limit(OrderByEstimatedDesc(CostRows(hist, meter), rev), COST_LIMIT)

(***************************************************************************)
(* The cost allocator on changing tables                                   *)
(***************************************************************************)
\* The rows of QUERY_HISTORY older than the session: none, or as many as the
\* limit of the statement, all of one warehouse-hour.
OldRows ==
    [i \in 1..COST_LIMIT |-> [warehouse |-> <<"WH_A">>, hour |-> 0, elapsed |-> 1, query_id |-> i]]

\* What a query logged during the session may look like: its warehouse (none
\* for a query that ran on no warehouse), hour and elapsed milliseconds.
NewRows ==
    {[warehouse |-> NULL, hour |-> 1, elapsed |-> 100],
     [warehouse |-> <<"WH_A">>, hour |-> 1, elapsed |-> 100],
     [warehouse |-> <<"WH_A">>, hour |-> 1, elapsed |-> 300],
     [warehouse |-> <<"WH_A">>, hour |-> 2, elapsed |-> 0]}

\* The queries logged in one session.
MaxQueries == 3

\* The rows WAREHOUSE_METERING_HISTORY may hold.
MeterRows ==
    {[warehouse |-> "WH_A", hour |-> 0, credits |-> 4],
     [warehouse |-> "WH_A", hour |-> 1, credits |-> 1],
     [warehouse |-> "WH_A", hour |-> 1, credits |-> 3],
     [warehouse |-> "WH_A", hour |-> 2, credits |-> 3]}

InitCost ==
    /\ creds_ok = TRUE
    /\ InitWidgets
    /\ InitRun
    /\ query_history \in {<<>>, OldRows}
    /\ metering = {}
    /\ cost_df = <<>>
    /\ cost_done = FALSE
    /\ base_df = <<>>
    /\ top_df = <<>>
    /\ df_view = "none"

\* A query ends and is logged; the result on the page is of the tables before.
LogQuery ==
    /\ Cardinality({i \in 1..Len(query_history) : query_history[i].hour > 0}) < MaxQueries
    /\ \E r \in NewRows :
          query_history' = Append(query_history,
                                  [warehouse |-> r.warehouse, hour |-> r.hour,
                                   elapsed |-> r.elapsed, query_id |-> Len(query_history) + 1])
    /\ cost_df' = <<>>
    /\ cost_done' = FALSE
    /\ UNCHANGED <<metering, dashVars, topVars>>

\* The metering of a warehouse-hour is recorded.
MeterCredits ==
    /\ \E m \in MeterRows \ metering : metering' = metering \cup {m}
    /\ cost_df' = <<>>
    /\ cost_done' = FALSE
    /\ UNCHANGED <<query_history, dashVars, topVars>>

\* The Estimated Query Cost view runs cost_sql.
RunCostQuery ==
    /\ ~cost_done
    /\ \E rev \in BOOLEAN : cost_df' = CostSql(query_history, metering, rev)
    /\ cost_done' = TRUE
    /\ UNCHANGED <<query_history, metering, dashVars, topVars>>

NextCost ==
    \/ LogQuery
    \/ MeterCredits
    \/ RunCostQuery

SpecCost == InitCost /\ [][NextCost]_vars

(***************************************************************************)
(* The Top 10 views (src/app.py 248-277) on the frame of metric_sql.  The  *)
(* QUERY_ID of a row is its place in the fetched result.                   *)
(***************************************************************************)
\* head(10)
TOP_N == 10

Metrics == <<"TOTAL_ELAPSED_TIME", "BYTES_SCANNED", "CREDITS_USED_CLOUD_SERVICES">>

\* DataFrame.sort_values(col, ascending=False): a greater value comes before a
\* smaller one, a missing value after every value (na_position="last")
ComesBeforeDesc(a, b) ==
    /\ ~IsNull(a)
    /\ IsNull(b) \/ a[1] > b[1]

RankByColumn(frame, col, i) ==
    1 + Cardinality({j \in 1..Len(frame) :
                        \/ ComesBeforeDesc(frame[j][col], frame[i][col])
                        \/ /\ ~ComesBeforeDesc(frame[i][col], frame[j][col])
                           /\ j < i})

\* numpy's quicksort sorts a frame of up to this many rows by insertion
SMALL_QUICKSORT == 16

\* sort_values with the default kind="quicksort", which is not a stable sort:
\* rows of equal value come out in the order fetched (rev false) or not (rev
\* true)
SortValuesDesc(frame, col, rev) ==
    LET n == Len(frame)
        rows == IF rev THEN Reverse(frame) ELSE frame
        rank == SubSeq([i \in 1..n |-> RankByColumn(rows, col, i)], 1, n)
    IN  [k \in 1..n |-> rows[CHOOSE i \in 1..n : rank[i] = k]]

\* DataFrame.head(n)
DfHead(frame, n) == SubSeq(frame, 1, Min(n, Len(frame)))

\* base_df.sort_values(col, ascending=False).head(10)
Top10(frame, col, rev) == DfHead(SortValuesDesc(frame, col, rev), TOP_N)

\* The metric values of a row of QUERY_HISTORY; BYTES_SCANNED may be missing.
RowValues ==
    [TOTAL_ELAPSED_TIME : {<<1>>, <<2>>},
     BYTES_SCANNED : {NULL, <<1>>},
     CREDITS_USED_CLOUD_SERVICES : {<<0>>, <<1>>}]

\* The recent rows of a fetched result.
MaxTopRows == 2

\* The older rows of a fetched result: none, or as many as quicksort still sorts
\* by insertion, all of equal metric values.
OlderRows ==
    [i \in 1..SMALL_QUICKSORT |->
        [TOTAL_ELAPSED_TIME |-> <<1>>, BYTES_SCANNED |-> <<1>>,
         CREDITS_USED_CLOUD_SERVICES |-> <<0>>]]

\* run_query(metric_sql, params): the rows in the order retrieved
Frame(vals) ==
    [i \in 1..Len(vals) |->
        [QUERY_ID |-> i,
         TOTAL_ELAPSED_TIME |-> vals[i].TOTAL_ELAPSED_TIME,
         BYTES_SCANNED |-> vals[i].BYTES_SCANNED,
         CREDITS_USED_CLOUD_SERVICES |-> vals[i].CREDITS_USED_CLOUD_SERVICES]]

BaseFrames ==
    {Frame(recent \o older) :
        recent \in UNION {[1..n -> RowValues] : n \in 0..MaxTopRows},
        older \in {<<>>, OlderRows}}

InitTop ==
    /\ creds_ok = TRUE
    /\ InitWidgets
    /\ InitRun
    /\ InitData

\* base_df = run_query(metric_sql, params)
RunMetricQuery ==
    /\ df_view \in {"none", Metrics[3]}
    /\ base_df' \in BaseFrames
    /\ top_df' = <<>>
    /\ df_view' = "base_df"
    /\ UNCHANGED <<dashVars, costVars>>

TopView(after, idx) ==
    /\ df_view = after
    /\ \E rev \in BOOLEAN :
          /\ rev => Len(base_df) > SMALL_QUICKSORT
          /\ top_df' = Top10(base_df, Metrics[idx], rev)
    /\ df_view' = Metrics[idx]
    /\ UNCHANGED <<base_df, dashVars, costVars>>

\* Top 10 by total runtime (ms)
Top10ByRuntime == TopView("base_df", 1)

\* Top 10 by bytes scanned
Top10ByBytes == TopView(Metrics[1], 2)

\* Top 10 by cloud services credits
Top10ByCredits == TopView(Metrics[2], 3)

NextTop ==
    \/ RunMetricQuery
    \/ Top10ByRuntime
    \/ Top10ByBytes
    \/ Top10ByCredits

SpecTop == InitTop /\ [][NextTop]_vars

(***************************************************************************)
(* Properties of the script run (under Spec)                               *)
(***************************************************************************)
QueryViews == Range(Views) \ {"running"}

\* C1: when the query of a view raises, the error stays at that view: every
\* other view of the run is still rendered; only missing credentials stop the
\* whole run.
C1_ViewFailureIsolated ==
    (pc = "idle" /\ run_end # "stopped") =>
        /\ run_end = "complete"
        /\ Range(Views) \ {raised} \subseteq rendered

SingleConcrete(whs) == Len(whs) = 1 /\ whs[1] # "ALL"

\* C2: with exactly one concrete warehouse selected the view calls
\* run_show_queries first and run_running_queries_fallback(warehouse, window)
\* after it exactly when the privileged path errored or returned no RUNNING
\* row; with any other selection it reports unavailability and calls neither.
C2_LiveViewProtocol ==
    ("running" \in rendered \/ raised = "running") =>
        IF SingleConcrete(warehouses)
        THEN /\ ~live.unavailable
             /\ Len(live.calls) >= 1
             /\ live.calls[1] = "show"
             /\ ("fallback" \in Range(live.calls)) <=> (live.error # "none" \/ live.no_running)
             /\ "fallback" \in Range(live.calls) =>
                    /\ live.calls = <<"show", "fallback">>
                    /\ live.fallback_args = <<warehouses[1], fallback_window>>
                    /\ fallback_window \in {15, 30, 60, 120}
        ELSE /\ live.unavailable
             /\ live.calls = <<>>

\* C3: run_show_queries never raises: whatever error the provider answers with,
\* it returns an empty result, warns with the provider's message and closes its
\* cursor.
C3_ShowNeverRaises ==
    /\ live.show # "raised"
    /\ live.error # "none" =>
          /\ live.show = "returned"
          /\ live.show_empty
          /\ live.warned
          /\ live.caption = "Snowflake error: " \o ErrorMessage(live.error)
          /\ live.cursor_closed

\* C4: after Refresh no cached result is served: the run that Refresh starts
\* sends every request of it to the warehouse, also those whose cached result
\* was younger than its ttl, and no result computed before a Refresh is served
\* after it.
C4_RefreshReissues ==
    /\ ~served_old
    /\ after_refresh =>
          /\ cache_hits = {}
          /\ rendered \cap QueryViews \subseteq submitted
          /\ "fallback" \in Range(live.calls) => "fallback" \in submitted

\* a complete run after a Refresh pressed while results of the selection were
\* cached: each of its queries went to the warehouse
C4_Witness ==
    /\ after_refresh
    /\ refreshed_fresh
    /\ pc = "idle"
    /\ run_end = "complete"
    /\ QueryViews \subseteq submitted
    /\ "fallback" \in submitted

(***************************************************************************)
(* Properties of the filter composition (under SpecFilter)                 *)
(***************************************************************************)
\* the keys wh_N of a parameter map
IsWhKey(k) == Len(k) >= 3 /\ SubSeq(k, 1, 3) = "wh_"

WhKeysOf(d) == {k \in DOMAIN d : IsWhKey(k)}

\* every % of the text opens a named placeholder
OnlyNamedPlaceholders(s) == Occurrences(s, "%") = Occurrences(s, "%(")

\* no value of the map occurs in the text
NoValueIn(s, d) == \A k \in DOMAIN d : ~Contains(s, d[k])

\* C5: for every filter selection, base_where and wh_filter_sql hold only named
\* placeholders and none of the bound values as text; the placeholders of
\* base_where are exactly the keys of params, those of wh_filter_sql exactly the
\* keys of wh_params, and cost_params binds exactly the placeholders of the two.
C5_PlaceholdersBound ==
    composed =>
        /\ OnlyNamedPlaceholders(base_where)
        /\ OnlyNamedPlaceholders(wh_filter_sql)
        /\ NoValueIn(base_where, params)
        /\ NoValueIn(base_where, cost_params)
        /\ NoValueIn(wh_filter_sql, cost_params)
        /\ PlaceholdersOf(base_where) = DOMAIN params
        /\ PlaceholdersOf(wh_filter_sql) = DOMAIN wh_params
        /\ DOMAIN cost_params = PlaceholdersOf(base_where) \cup PlaceholdersOf(wh_filter_sql)
        /\ \A k \in DOMAIN params : cost_params[k] = params[k]
        /\ (Truthy(user_filter) => params["user_name"] = user_filter)
        /\ (Truthy(query_tag) => params["query_tag"] = query_tag)

\* a custom range, two concrete warehouses, a user text with quotes and a tag
C5_Witness ==
    /\ composed
    /\ preset = "Custom"
    /\ Len(warehouses) = 2
    /\ Restricted(warehouses)
    /\ user_filter = "x' OR '1'='1"
    /\ query_tag = "alice"
    /\ Cardinality(DOMAIN cost_params) = 6

\* C6: a selection that includes "ALL" puts no warehouse restriction into the
\* query-history predicate nor into the metering fragment (no WAREHOUSE_NAME
\* clause, no wh_N binding); a selection of concrete names binds each name to
\* one wh_N parameter that occurs once in the IN-list.
C6_SentinelNoRestriction ==
    composed =>
        /\ "ALL" \in Range(warehouses) =>
              /\ ~Contains(base_where, "WAREHOUSE_NAME")
              /\ wh_filter_sql = ""
              /\ WhKeysOf(params) = {}
              /\ WhKeysOf(cost_params) = {}
        /\ (Len(warehouses) > 0 /\ "ALL" \notin Range(warehouses)) =>
              /\ Occurrences(base_where, "WAREHOUSE_NAME IN (") = 1
              /\ Occurrences(wh_filter_sql, "WAREHOUSE_NAME IN (") = 1
              /\ WhKeysOf(params) = {WhKey(i - 1) : i \in 1..Len(warehouses)}
              /\ WhKeysOf(cost_params) = WhKeysOf(params)
              /\ Cardinality(WhKeysOf(params)) = Len(warehouses)
              /\ \A i \in 1..Len(warehouses) :
                    /\ params[WhKey(i - 1)] = warehouses[i]
                    /\ cost_params[WhKey(i - 1)] = warehouses[i]
                    /\ Occurrences(base_where, "%(" \o WhKey(i - 1) \o ")s") = 1
                    /\ Occurrences(wh_filter_sql, "%(" \o WhKey(i - 1) \o ")s") = 1

\* the sentinel selected after a concrete warehouse
C6_Witness ==
    /\ composed
    /\ Len(warehouses) >= 2
    /\ warehouses[1] # "ALL"
    /\ "ALL" \in Range(warehouses)
    /\ base_where = "START_TIME >= %(start_ts)s AND START_TIME <= %(end_ts)s"

\* C10: a blank (empty or whitespace-only) user or tag text adds no clause and
\* no binding; the USER_NAME / QUERY_TAG clause is in the predicate exactly when
\* the text is not blank.
C10_BlankTextNoClause ==
    composed =>
        /\ Contains(base_where, "USER_NAME = ") <=> ~IsBlank(user_filter)
        /\ ("user_name" \in DOMAIN params) <=> ~IsBlank(user_filter)
        /\ Contains(base_where, "QUERY_TAG = ") <=> ~IsBlank(query_tag)
        /\ ("query_tag" \in DOMAIN params) <=> ~IsBlank(query_tag)

(***************************************************************************)
(* Properties of the estimated-cost statement (under SpecCost)             *)
(***************************************************************************)
\* total elapsed milliseconds of the records of one hour and warehouse
BucketMs(hour, wh) ==
    SumSeq([i \in 1..Len(query_history) |->
                IF query_history[i].hour = hour /\ query_history[i].warehouse = wh
                THEN query_history[i].elapsed ELSE 0])

\* the records with a warehouse, by QUERY_ID
Attributed == {i \in 1..Len(query_history) : ~IsNull(query_history[i].warehouse)}

Returned == {cost_df[k].query_id : k \in 1..Len(cost_df)}

\* whether the estimate of record i is defined: a positive bucket total and a
\* metered bucket
Defined(i) ==
    /\ BucketMs(query_history[i].hour, query_history[i].warehouse) > 0
    /\ ~IsNull(WhCredits(metering, query_history[i].hour, query_history[i].warehouse))

\* C7: every returned row carries estimated_credits = elapsed / (total elapsed
\* of the records of its hour and warehouse) * credits of that bucket, so the
\* estimates of a bucket add up to the bucket's credits; the estimate is NULL
\* when the bucket's total elapsed time is 0; a record with a warehouse yields
\* one row, never two (and is returned when the limit leaves room).
C7_CostAllocation ==
    cost_done =>
        /\ \A k \in 1..Len(cost_df) :
              LET r == cost_df[k]
                  total == BucketMs(r.hour, r.warehouse)
                  credits == WhCredits(metering, r.hour, r.warehouse)
              IN  /\ r.query_id \in Attributed
                  /\ total = 0 => IsNull(r.estimated)
                  /\ (total > 0 /\ ~IsNull(credits)) =>
                        /\ ~IsNull(r.estimated)
                        /\ r.estimated[1] * total = r.elapsed * credits[1] * QuotientUnit
        /\ Cardinality(Returned) = Len(cost_df)
        /\ Cardinality(Attributed) <= COST_LIMIT =>
              /\ Returned = Attributed
              /\ \A k \in 1..Len(cost_df) :
                    LET r == cost_df[k]
                        credits == WhCredits(metering, r.hour, r.warehouse)
                    IN  ~IsNull(r.estimated) =>
                            SumSeq([j \in 1..Len(cost_df) |->
                                       IF /\ cost_df[j].hour = r.hour
                                          /\ cost_df[j].warehouse = r.warehouse
                                          /\ ~IsNull(cost_df[j].estimated)
                                       THEN cost_df[j].estimated[1] ELSE 0])
                                = credits[1] * QuotientUnit

\* C8: the view returns at most 50 rows in descending order of the estimate,
\* no row with an undefined estimate precedes a row with a defined one, and an
\* undefined row is returned only if every defined row is.
C8_UndefinedSortLast ==
    cost_done =>
        /\ Len(cost_df) <= COST_LIMIT
        /\ \A i \in 1..Len(cost_df) : \A j \in (i + 1)..Len(cost_df) :
              /\ IsNull(cost_df[i].estimated) => IsNull(cost_df[j].estimated)
              /\ (~IsNull(cost_df[i].estimated) /\ ~IsNull(cost_df[j].estimated)) =>
                    cost_df[i].estimated[1] >= cost_df[j].estimated[1]
        /\ (\E k \in 1..Len(cost_df) : IsNull(cost_df[k].estimated)) =>
              \A i \in Attributed : Defined(i) => i \in Returned

(***************************************************************************)
(* Properties of the Top 10 views (under SpecTop)                          *)
(***************************************************************************)
Shown == {top_df[k].QUERY_ID : k \in 1..Len(top_df)}

\* C9: a top-10 view shows at most 10 rows of base_df in descending order of
\* its metric, no row left out has a greater value than a row shown, and rows
\* of equal value keep the order in which they were retrieved.
C9_TopTenStable ==
    df_view \in Range(Metrics) =>
        /\ Len(top_df) = Min(TOP_N, Len(base_df))
        /\ Cardinality(Shown) = Len(top_df)
        /\ \A k \in 1..Len(top_df) : top_df[k] = base_df[top_df[k].QUERY_ID]
        /\ \A i \in 1..Len(top_df) : \A j \in (i + 1)..Len(top_df) :
              /\ ~ComesBeforeDesc(top_df[j][df_view], top_df[i][df_view])
              /\ top_df[i][df_view] = top_df[j][df_view] =>
                    top_df[i].QUERY_ID < top_df[j].QUERY_ID
        /\ \A i \in 1..Len(top_df) : \A m \in (1..Len(base_df)) \ Shown :
              /\ ~ComesBeforeDesc(base_df[m][df_view], top_df[i][df_view])
              /\ top_df[i][df_view] = base_df[m][df_view] => top_df[i].QUERY_ID < m

====
